---------------------------- MODULE Spec2Model ----------------------------
(***************************************************************************)
(* The load of config/__init__.py.                                         *)
(*                                                                         *)
(* The file is a flat list of nine module-level assignments.  Loading it   *)
(* runs them in source order against the module's own namespace; a name    *)
(* that is read is looked up in that namespace and then in the enclosing   *)
(* builtins scope, and a name found in neither raises NameError, which     *)
(* aborts the load at that statement.  The file reads one name it never    *)
(* binds (REWARD_TOKEN, line 10; its assignment on line 8 is a comment),   *)
(* so the builtins scope is the load's only input.                         *)
(*                                                                         *)
(* A string is a sequence of one-character strings, a Python list is a     *)
(* sequence, a namespace is a function whose domain is the bound names.    *)
(* MaxLoads loads of the file run side by side in one interpreter, each    *)
(* into a module namespace of its own, all over the same builtins scope.   *)
(***************************************************************************)
EXTENDS Integers, Sequences, FiniteSets, TLC

\* Number of loads of the file that are followed.
MaxLoads == 2

Loaders == 1..MaxLoads

(***************************************************************************)
(* The literals of the file.                                               *)
(***************************************************************************)
\* line 4
BADGER_DEV_MULTISIG ==
    <<"0","x","b","6","5","c","e","f","0","3","b","9","b","8","9","f","9","9","5","1","7","6",
      "4","3","2","2","6","d","7","6","e","2","8","6","e","e","9","9","9","e","7","7">>

\* line 6
WANT ==
    <<"0","x","A","0","b","8","6","9","9","1","c","6","2","1","8","b","3","6","c","1","d","1",
      "9","D","4","a","2","e","9","E","b","0","c","E","3","6","0","6","e","B","4","8">>

\* line 7
LP_COMPONENT ==
    <<"0","x","9","9","a","c","8","c","A","7","0","8","7","f","A","4","A","2","A","1","F","B",
      "6","3","5","7","2","6","9","9","6","5","A","2","0","1","4","A","B","c","3","5">>

\* line 8, a comment in the file: # REWARD_TOKEN = ""
CommentedRewardToken == << >>

\* line 12
DEFAULT_GOV_PERFORMANCE_FEE == 1000

\* A performance fee that, with the governance fee, exceeds the whole yield.
OversizedPerformanceFee == 10000 - 999

\* line 13
DEFAULT_PERFORMANCE_FEE == 1000

\* A withdrawal fee above 100%.
OversizedWithdrawalFee == 10 * 10000

\* line 14
DEFAULT_WITHDRAWAL_FEE == 10

\* line 18
REGISTRY ==
    <<"0","x","F","d","a","7","e","B","6","f","8","b","7","a","9","e","9","f","C","F","d","3",
      "4","8","0","4","2","a","e","6","7","5","d","1","d","6","5","2","4","5","4","f">>

(***************************************************************************)
(* The statements.  A statement binds `target` to a literal (`lit`) or to  *)
(* the list of the values of the names in `reads`, in that order.          *)
(***************************************************************************)
Literal(ln, tgt, v) == [line |-> ln, target |-> tgt, kind |-> "literal", lit |-> v, reads |-> << >>]

ListOf(ln, tgt, names) == [line |-> ln, target |-> tgt, kind |-> "list", lit |-> << >>, reads |-> names]

Stmt_BADGER_DEV_MULTISIG == Literal(4, "BADGER_DEV_MULTISIG", BADGER_DEV_MULTISIG)

Stmt_WANT == Literal(6, "WANT", WANT)

Stmt_LP_COMPONENT == Literal(7, "LP_COMPONENT", LP_COMPONENT)

Stmt_PROTECTED_TOKENS == ListOf(10, "PROTECTED_TOKENS", <<"WANT", "LP_COMPONENT", "REWARD_TOKEN">>)

Stmt_DEFAULT_GOV_PERFORMANCE_FEE == Literal(12, "DEFAULT_GOV_PERFORMANCE_FEE", DEFAULT_GOV_PERFORMANCE_FEE)

Stmt_DEFAULT_PERFORMANCE_FEE == Literal(13, "DEFAULT_PERFORMANCE_FEE", DEFAULT_PERFORMANCE_FEE)

Stmt_DEFAULT_WITHDRAWAL_FEE == Literal(14, "DEFAULT_WITHDRAWAL_FEE", DEFAULT_WITHDRAWAL_FEE)

\* The fee list with the withdrawal fee first.
Stmt_FEES_Misordered ==
    ListOf(16, "FEES",
           <<"DEFAULT_WITHDRAWAL_FEE", "DEFAULT_GOV_PERFORMANCE_FEE", "DEFAULT_PERFORMANCE_FEE">>)

Stmt_FEES ==
    ListOf(16, "FEES",
           <<"DEFAULT_GOV_PERFORMANCE_FEE", "DEFAULT_PERFORMANCE_FEE", "DEFAULT_WITHDRAWAL_FEE">>)

\* The registry address assigned to a name bound earlier.
Stmt_REGISTRY_Mistargeted == Literal(18, "WANT", REGISTRY)

Stmt_REGISTRY == Literal(18, "REGISTRY", REGISTRY)

\* The file with the fee block moved above the protected-token list.
ProgramFeesFirst ==
    << Stmt_BADGER_DEV_MULTISIG, Stmt_WANT, Stmt_LP_COMPONENT,
       Stmt_DEFAULT_GOV_PERFORMANCE_FEE, Stmt_DEFAULT_PERFORMANCE_FEE,
       Stmt_DEFAULT_WITHDRAWAL_FEE, Stmt_FEES, Stmt_PROTECTED_TOKENS, Stmt_REGISTRY >>

\* The file, in source order.
Program ==
    << Stmt_BADGER_DEV_MULTISIG, Stmt_WANT, Stmt_LP_COMPONENT, Stmt_PROTECTED_TOKENS,
       Stmt_DEFAULT_GOV_PERFORMANCE_FEE, Stmt_DEFAULT_PERFORMANCE_FEE,
       Stmt_DEFAULT_WITHDRAWAL_FEE, Stmt_FEES, Stmt_REGISTRY >>

(***************************************************************************)
(* The builtins scope the file is loaded under.  REWARD_TOKEN is the one   *)
(* name the file reads without binding it: the scope either lacks it (a    *)
(* plain interpreter) or supplies a string for it.                         *)
(***************************************************************************)
OtherToken ==
    <<"0","x","3","4","7","2","A","5","A","7","1","9","6","5","4","9","9","a","c","d","8","1",
      "9","9","7","a","5","4","b","B","A","8","D","8","5","2","C","6","E","5","3","d">>

RewardTokenChoices == {CommentedRewardToken, WANT, LP_COMPONENT, OtherToken}

BuiltinScopes == { << >> } \cup { ("REWARD_TOKEN" :> v) : v \in RewardTokenChoices }

VARIABLES
    builtins,   \* the enclosing scope: name -> value, shared by the loads
    ns,         \* ns[l]: the namespace of the module load l fills
    pc,         \* pc[l]: index in Program of the statement load l runs next
    status,     \* status[l]: "loading", "loaded" or "failed"
    err         \* err[l]: the exception that ended load l, or NoError

vars == <<builtins, ns, pc, status, err>>

NoError == [kind |-> "none", name |-> "", line |-> 0]

NameError(n, ln) == [kind |-> "NameError", name |-> n, line |-> ln]

Init ==
    /\ builtins \in BuiltinScopes
    /\ ns = [l \in Loaders |-> << >>]
    /\ pc = [l \in Loaders |-> 1]
    /\ status = [l \in Loaders |-> "loading"]
    /\ err = [l \in Loaders |-> NoError]

\* A lookup that yields the empty string for a name bound nowhere.
ResolveDefaulting(l, n) ==
    IF n \in DOMAIN ns[l] THEN [found |-> TRUE, val |-> ns[l][n]]
    ELSE IF n \in DOMAIN builtins THEN [found |-> TRUE, val |-> builtins[n]]
    ELSE [found |-> TRUE, val |-> << >>]

\* The lookup of a name read at module level: the module's namespace, then builtins.
Resolve(l, n) ==
    IF n \in DOMAIN ns[l] THEN [found |-> TRUE, val |-> ns[l][n]]
    ELSE IF n \in DOMAIN builtins THEN [found |-> TRUE, val |-> builtins[n]]
    ELSE [found |-> FALSE, val |-> << >>]

\* The positions of st.reads whose name is bound nowhere.
Unresolved(l, st) == { i \in 1..Len(st.reads) : ~ Resolve(l, st.reads[i]).found }

Min(S) == CHOOSE x \in S : \A y \in S : x <= y

\* The value of the right-hand side of st, its names resolved left to right.
Eval(l, st) ==
    IF st.kind = "literal" THEN st.lit
    ELSE [i \in 1..Len(st.reads) |-> Resolve(l, st.reads[i]).val]

\* A store that also writes the name into the builtins scope.
StoreLeaking(l, n, v) ==
    /\ ns' = [ns EXCEPT ![l] = (n :> v) @@ @]
    /\ builtins' = (n :> v) @@ builtins

\* The store of an assignment: the name is (re)bound in the module's namespace only.
Store(l, n, v) ==
    /\ ns' = [ns EXCEPT ![l] = (n :> v) @@ @]
    /\ UNCHANGED builtins

\* Load l runs its next statement, statement i of the file.
Exec(l, i) ==
    /\ LET st == Program[i]
           missing == Unresolved(l, st)
       IN  IF missing = {}
           THEN /\ Store(l, st.target, Eval(l, st))
                /\ pc' = [pc EXCEPT ![l] = i + 1]
                /\ status' = [status EXCEPT ![l] = IF i = Len(Program) THEN "loaded" ELSE "loading"]
                /\ UNCHANGED err
           ELSE /\ status' = [status EXCEPT ![l] = "failed"]
                /\ err' = [err EXCEPT ![l] = NameError(st.reads[Min(missing)], st.line)]
                /\ UNCHANGED <<builtins, ns, pc>>

AssignBadgerDevMultisig(l) ==
    /\ status[l] = "loading"
    /\ pc[l] = 1
    /\ Exec(l, 1)

AssignWant(l) ==
    /\ status[l] = "loading"
    /\ pc[l] = 2
    /\ Exec(l, 2)

AssignLpComponent(l) ==
    /\ status[l] = "loading"
    /\ pc[l] = 3
    /\ Exec(l, 3)

AssignProtectedTokens(l) ==
    /\ status[l] = "loading"
    /\ pc[l] = 4
    /\ Exec(l, 4)

AssignDefaultGovPerformanceFee(l) ==
    /\ status[l] = "loading"
    /\ pc[l] = 5
    /\ Exec(l, 5)

AssignDefaultPerformanceFee(l) ==
    /\ status[l] = "loading"
    /\ pc[l] = 6
    /\ Exec(l, 6)

AssignDefaultWithdrawalFee(l) ==
    /\ status[l] = "loading"
    /\ pc[l] = 7
    /\ Exec(l, 7)

AssignFees(l) ==
    /\ status[l] = "loading"
    /\ pc[l] = 8
    /\ Exec(l, 8)

AssignRegistry(l) ==
    /\ status[l] = "loading"
    /\ pc[l] = 9
    /\ Exec(l, 9)

Next ==
    \E l \in Loaders :
        \/ AssignBadgerDevMultisig(l)
        \/ AssignWant(l)
        \/ AssignLpComponent(l)
        \/ AssignProtectedTokens(l)
        \/ AssignDefaultGovPerformanceFee(l)
        \/ AssignDefaultPerformanceFee(l)
        \/ AssignDefaultWithdrawalFee(l)
        \/ AssignFees(l)
        \/ AssignRegistry(l)

Spec == Init /\ [][Next]_vars

(***************************************************************************)
(* Vocabulary of the properties.                                           *)
(***************************************************************************)
Bound(l, n) == n \in DOMAIN ns[l]

Terminated(l) == status[l] # "loading"

HexDigits ==
    {"0","1","2","3","4","5","6","7","8","9",
     "a","b","c","d","e","f","A","B","C","D","E","F"}

\* "0x" followed by exactly 40 hexadecimal digits.
IsAddress(s) ==
    /\ Len(s) = 42
    /\ s[1] = "0"
    /\ s[2] = "x"
    /\ \A i \in 3..42 : s[i] \in HexDigits

FeeNames == {"DEFAULT_GOV_PERFORMANCE_FEE", "DEFAULT_PERFORMANCE_FEE", "DEFAULT_WITHDRAWAL_FEE"}

AddressNames == {"BADGER_DEV_MULTISIG", "WANT", "LP_COMPONENT", "REGISTRY"}

\* The names of the file in the order of their assignments.
SourceOrder ==
    <<"BADGER_DEV_MULTISIG", "WANT", "LP_COMPONENT", "PROTECTED_TOKENS",
      "DEFAULT_GOV_PERFORMANCE_FEE", "DEFAULT_PERFORMANCE_FEE", "DEFAULT_WITHDRAWAL_FEE",
      "FEES", "REGISTRY">>

RewardTokenAbsent == "REWARD_TOKEN" \notin DOMAIN builtins

C2_ProtectedTokensIsWantAndLp ==
    \A l \in Loaders :
        Terminated(l) =>
            /\ Bound(l, "PROTECTED_TOKENS")
            /\ ns[l]["PROTECTED_TOKENS"] = <<WANT, LP_COMPONENT>>

SameOutcome(a, b) ==
    /\ status[a] = status[b]
    /\ err[a] = err[b]
    /\ pc[a] = pc[b]
    /\ DOMAIN ns[a] = DOMAIN ns[b]
    /\ \A n \in DOMAIN ns[a] : ns[a][n] = ns[b][n]

OnlyOwnNamespaceChanges ==
    /\ builtins' = builtins
    /\ \E l \in Loaders :
          \A k \in Loaders \ {l} :
              /\ ns'[k] = ns[k]
              /\ pc'[k] = pc[k]
              /\ status'[k] = status[k]
              /\ err'[k] = err[k]

FailsFastAtProtectedTokens(l) ==
    (RewardTokenAbsent /\ status[l] = "loading" /\ pc[l] = 4 /\ status'[l] # status[l]) =>
        /\ status'[l] = "failed"
        /\ err'[l] = NameError("REWARD_TOKEN", 10)
        /\ ns'[l] = ns[l]
        /\ pc'[l] = pc[l]

C5_AbsentSymbolFailsFast ==
    /\ [][\A l \in Loaders : FailsFastAtProtectedTokens(l)]_vars
    /\ [](\A l \in Loaders :
            /\ RewardTokenAbsent =>
                  /\ pc[l] <= 4
                  /\ status[l] # "loaded"
                  /\ ~ Bound(l, "PROTECTED_TOKENS")
                  /\ ~ Bound(l, "REWARD_TOKEN")
            /\ status[l] = "failed" =>
                  /\ RewardTokenAbsent
                  /\ err[l] = NameError("REWARD_TOKEN", 10))

C5_Witness ==
    \E l \in Loaders : status[l] = "failed" /\ err[l].kind = "NameError"

BindingsKept(l) ==
    /\ \A n \in DOMAIN ns[l] : n \in DOMAIN ns'[l] /\ ns'[l][n] = ns[l][n]
    /\ Terminated(l) => ns'[l] = ns[l] /\ status'[l] = status[l]

C9_SourceOrderAndAbortAtProtectedTokens ==
    \A l \in Loaders :
        /\ DOMAIN ns[l] = {SourceOrder[k] : k \in 1..(pc[l] - 1)}
        /\ RewardTokenAbsent =>
              /\ DOMAIN ns[l] \subseteq {"BADGER_DEV_MULTISIG", "WANT", "LP_COMPONENT"}
              /\ Terminated(l) =>
                    /\ status[l] = "failed"
                    /\ err[l].line = 10
                    /\ DOMAIN ns[l] = {"BADGER_DEV_MULTISIG", "WANT", "LP_COMPONENT"}

C9_Witness ==
    \E l \in Loaders :
        /\ RewardTokenAbsent
        /\ Terminated(l)
        /\ DOMAIN ns[l] = {"BADGER_DEV_MULTISIG", "WANT", "LP_COMPONENT"}

=============================================================================
